---- MODULE Spec2Model ----
(***************************************************************************)
(* buildkite-accounter: the paginated fetch of organization members        *)
(* (internal/buildkite/buildkite.go), their normalisation (cli.getMembers) *)
(* and the duplicate report, collapse and output of cli.Run.               *)
(*                                                                         *)
(* Strings the program inspects or orders (emails, roles) are sequences of *)
(* byte codes; strings it only compares for equality (names, org slugs,    *)
(* error kinds) are TLA+ strings.  The empty string of a cursor, an email  *)
(* filter or a CSV cell is <<>>.  A nil pointer is <<>> and a non-nil one  *)
(* is a one-element sequence.  The disk cache is off (c.Cache = false, the *)
(* flag's default), so getOrgMembers is client.GetOrgMembers.  The flags   *)
(* only the second half of Run reads (c.Dedupe, c.Email, c.Output) are     *)
(* drawn where Run reads them; `dedupe` and `filterEmail` record the draw. *)
(***************************************************************************)
EXTENDS Integers, Sequences, FiniteSets, TLC

VARIABLES
    server,      \* the API's data: org slug -> the organization's member edges
    cap,         \* the most edges the API puts on one page
    pc,          \* where the program is: fetch, fetched, run, done, error
    orgIdx,      \* getMembers: index of the org slug being fetched
    after,       \* GetOrgMembers: the cursor of the next request
    pageAcc,     \* GetOrgMembers: result, the OrgMembers of the pages so far
    acc,         \* getMembers: result, the Members normalised so far
    members,     \* Run: the members getMembers returned
    err,         \* the error Run returns ("" is nil)
    report,      \* Run: result before the collapse step
    result,      \* Run: result after the collapse step
    output,      \* what Run printed or wrote
    dedupe,      \* c.Dedupe
    filterEmail, \* c.Email
    requests,    \* the `after` of every request of the current GetOrgMembers call
    pages,       \* the page answered to each of them
    sent,        \* number of page requests sent by the whole run
    failed,      \* value of `sent` when a request failed, 0 when none did
    honest       \* every page so far carried the pageInfo of a well-behaved API

vars == <<server, cap, pc, orgIdx, after, pageAcc, acc, members, err, report,
          result, output, dedupe, filterEmail, requests, pages, sent, failed,
          honest>>

\* ---------------------------------------------------------------- bounds
MaxMembers == 3     \* members held by the two organizations together (Spec)
ServerCap == 1      \* page cap of the API in Spec
MaxServed == 250    \* members of the organization in SpecPages
MaxRequests == 4    \* requests after which an ill-behaved API stops looping

\* ------------------------------------------------------ program constants
PageSize == 100     \* members(first: 100, ...)
At == 64            \* "@"

Min(a, b) == IF a < b THEN a ELSE b
Max(a, b) == IF a < b THEN b ELSE a
Range(s) == {s[i] : i \in DOMAIN s}

\* ---------------------------------------------------------- sample data
EmailAX == <<97, 64, 120>>              \* a@x
EmailBX == <<98, 64, 120>>              \* b@x
EmailABX == <<97, 64, 98, 64, 120>>     \* a@b@x
EmailNoAt == <<97, 98>>                 \* ab
RoleAdmin == <<65, 68, 77, 73, 78>>     \* ADMIN
RoleMember == <<77, 69, 77, 66, 69, 82>> \* MEMBER

Edge(id, name, email, role, auths) ==
    [ID |-> id, Name |-> name, Email |-> email, Role |-> role,
     Complimentary |-> FALSE, Auths |-> auths]

EdgePool ==
    { Edge(1, "Llama", EmailAX, RoleAdmin, <<>>),
      Edge(2, "Llama", EmailAX, RoleMember, <<>>),
      Edge(2, "Llama", EmailBX, RoleMember, <<>>),
      Edge(3, "Mia", EmailBX, RoleMember, <<>>),
      Edge(1, "Mia", EmailNoAt, RoleMember,
           <<[Email |-> EmailABX, CreatedAt |-> 1]>>),
      Edge(2, "Mia", EmailAX, RoleMember,
           <<[Email |-> EmailNoAt, CreatedAt |-> 2]>>) }

Filler(i) == Edge(i, "Llama", EmailAX, RoleMember, <<>>)

OrgSlugs == <<"o1", "o2">>
Orgs == Range(OrgSlugs)
ErrorKinds == {"transport", "api", "status", "decode"}
DedupeSettings == {<<>>, <<"email">>, <<"name">>, <<"email", "name">>}
EmailFilters == {<<>>, EmailAX}
NoOutput == [kind |-> "none"]

\* --------------------------------------------------------------- the API
CursorPos(c) == IF c = <<>> THEN 0 ELSE c[1]

PageEnd(list, c) == Min(CursorPos(c) + Min(PageSize, cap), Len(list))

PageEdges(list, c) == SubSeq(list, CursorPos(c) + 1, PageEnd(list, c))

HonestInfo(list, c) ==
    [hasNextPage |-> PageEnd(list, c) < Len(list),
     endCursor |-> IF PageEdges(list, c) = <<>> THEN <<>>
                   ELSE <<PageEnd(list, c)>>]

PageInfos(list, c) ==
    [hasNextPage : BOOLEAN, endCursor : {<<>>, <<PageEnd(list, c)>>}]

\* ------------------------------------------------------ getOrgMembersPage
OrgMemberOf(edge) ==
    [ID |-> edge.ID, Name |-> edge.Name, Email |-> edge.Email,
     Role |-> edge.Role, Complimentary |-> edge.Complimentary,
     Authorization |-> IF Len(edge.Auths) > 0 THEN <<edge.Auths[1]>> ELSE <<>>]

OrgMembersOf(edges) == [i \in 1..Len(edges) |-> OrgMemberOf(edges[i])]

NextAfterIgnoresHasNext(info) == info.endCursor

NextAfter(info) ==
    IF info.hasNextPage /\ info.endCursor # <<>> THEN info.endCursor ELSE <<>>

\* ------------------------------------------------------------ getMembers
\* strings.ToLower on ASCII bytes
ToLower(s) == [i \in 1..Len(s) |-> IF s[i] >= 65 /\ s[i] <= 90 THEN s[i] + 32 ELSE s[i]]

\* strings.Index and strings.LastIndex, 1-based; 0 is Go's -1
FirstIndex(s, c) ==
    IF \E i \in DOMAIN s : s[i] = c
    THEN CHOOSE i \in DOMAIN s : s[i] = c /\ \A j \in DOMAIN s : s[j] = c => i <= j
    ELSE 0

LastIndex(s, c) ==
    IF \E i \in DOMAIN s : s[i] = c
    THEN CHOOSE i \in DOMAIN s : s[i] = c /\ \A j \in DOMAIN s : s[j] = c => j <= i
    ELSE 0

getEmailDomainFirstAt(email) ==
    IF FirstIndex(email, At) >= 1
    THEN [ok |-> TRUE, domain |-> SubSeq(email, FirstIndex(email, At) + 1, Len(email))]
    ELSE [ok |-> FALSE, domain |-> <<>>]

getEmailDomain(email) ==
    IF LastIndex(email, At) >= 1
    THEN [ok |-> TRUE, domain |-> SubSeq(email, LastIndex(email, At) + 1, Len(email))]
    ELSE [ok |-> FALSE, domain |-> <<>>]

\* the Member of getMembers' loop body before its Domain is set
MemberOf(om, orgSlug) ==
    [ID |-> om.ID,
     Email |-> IF om.Authorization # <<>> THEN om.Authorization[1].Email ELSE om.Email,
     Name |-> om.Name,
     Org |-> orgSlug,
     Role |-> ToLower(om.Role),
     Complimentary |-> om.Complimentary,
     LastAuth |-> IF om.Authorization # <<>> THEN <<om.Authorization[1].CreatedAt>> ELSE <<>>]

WithDomain(m) == [f \in DOMAIN m \cup {"Domain"} |->
                    IF f = "Domain" THEN getEmailDomain(m.Email).domain ELSE m[f]]

\* the inner loop of getMembers over one organization's members
NormalizeOK(oms, orgSlug) ==
    \A i \in DOMAIN oms : getEmailDomain(MemberOf(oms[i], orgSlug).Email).ok

Normalized(oms, orgSlug) ==
    [i \in 1..Len(oms) |-> WithDomain(MemberOf(oms[i], orgSlug))]

\* ------------------------------------------------------------------- Run
\* Go's < on strings: bytewise lexicographic
StrLess(a, b) ==
    \E k \in 1..(Min(Len(a), Len(b)) + 1) :
        /\ \A i \in 1..(k - 1) : a[i] = b[i]
        /\ \/ k > Len(a) /\ k <= Len(b)
           \/ k <= Len(a) /\ k <= Len(b) /\ a[k] < b[k]

Insert(x, s) ==
    LET n == Cardinality({i \in DOMAIN s : ~StrLess(x, s[i])})
    IN  SubSeq(s, 1, n) \o <<x>> \o SubSeq(s, n + 1, Len(s))

RECURSIVE InsertionSort(_)
InsertionSort(s) ==
    IF s = <<>> THEN <<>>
    ELSE Insert(s[Len(s)], InsertionSort(SubSeq(s, 1, Len(s) - 1)))

SortStringsUnsorted(s) == s

SortStrings(s) == InsertionSort(s)

\* filterMembers, its predicate f given as the set of members f accepts
filterMembers(ms, f) == LET Test(m) == m \in f IN SelectSeq(ms, Test)

filterMembersByEmail(ms, email) ==
    filterMembers(ms, {m \in Range(ms) : m.Email = email})

ReportEntryKeepsRep(ms, email) ==
    LET byEmail == filterMembersByEmail(ms, email)
        member == byEmail[1]
        f == {m \in Range(ms) : m.Name = member.Name /\ m.Email # member.Email}
    IN  [Member |-> member, EmailDuplicates |-> byEmail,
         NameDuplicates |-> filterMembers(ms, f)]

\* the body of the loop "iterate by sorted email"
ReportEntry(ms, email) ==
    LET byEmail == filterMembersByEmail(ms, email)
        member == byEmail[1]
        f == {m \in Range(ms) : m.Name = member.Name /\ m.Email # member.Email}
    IN  [Member |-> member, EmailDuplicates |-> SubSeq(byEmail, 2, Len(byEmail)),
         NameDuplicates |-> filterMembers(ms, f)]

RECURSIVE ReportLoop(_, _, _)
ReportLoop(ms, emails, filter) ==
    IF emails = <<>> THEN <<>>
    ELSE (IF filter # <<>> /\ filter # Head(emails) THEN <<>>
          ELSE <<ReportEntry(ms, Head(emails))>>)
         \o ReportLoop(ms, Tail(emails), filter)

BuildReport(ms, filter) ==
    ReportLoop(ms, SortStrings([i \in 1..Len(ms) |-> ms[i].Email]), filter)

dedupeEmail(d) == \E i \in DOMAIN d : d[i] = "email"
dedupeName(d) == \E i \in DOMAIN d : d[i] = "name"

IDs(ms) == {ms[i].ID : i \in DOMAIN ms}

MarksWithoutOwnID(r, d) ==
    (IF dedupeEmail(d) THEN IDs(r.EmailDuplicates) ELSE {})
    \cup (IF dedupeName(d) THEN IDs(r.NameDuplicates) ELSE {})

\* the ids the loop "remove duplicates" marks seen when it keeps r
Marks(r, d) ==
    {r.Member.ID}
    \cup (IF dedupeEmail(d) THEN IDs(r.EmailDuplicates) ELSE {})
    \cup (IF dedupeName(d) THEN IDs(r.NameDuplicates) ELSE {})

RECURSIVE CollapseLoopMarksSkipped(_, _, _)
CollapseLoopMarksSkipped(rs, seen, d) ==
    IF rs = <<>> THEN <<>>
    ELSE (IF Head(rs).Member.ID \in seen THEN <<>> ELSE <<Head(rs)>>)
         \o CollapseLoopMarksSkipped(Tail(rs), seen \cup Marks(Head(rs), d), d)

RECURSIVE CollapseLoop(_, _, _)
CollapseLoop(rs, seen, d) ==
    IF rs = <<>> THEN <<>>
    ELSE IF Head(rs).Member.ID \in seen THEN CollapseLoop(Tail(rs), seen, d)
    ELSE <<Head(rs)>> \o CollapseLoop(Tail(rs), seen \cup Marks(Head(rs), d), d)

Collapse(rs, d) ==
    IF dedupeEmail(d) \/ dedupeName(d) THEN CollapseLoop(rs, {}, d) ELSE rs

\* member.LastAuth.Format(`2006-01-02 15:04:05`): "" for nil, else the text of
\* the instant, kept as the instant under the layout's name
FormatLastAuth(la) == IF la = <<>> THEN <<>> ELSE <<"2006-01-02 15:04:05", la[1]>>

CsvRow(m) == <<m.Email, m.Name, m.Org, m.Role, FormatLastAuth(m.LastAuth)>>

CsvSourceCollapsed(ms, res) == [i \in 1..Len(res) |-> res[i].Member]

\* what the CSV loop ranges over
CsvSource(ms, res) == ms

CsvFile(ms) ==
    [kind |-> "csv",
     header |-> <<"email", "name", "org", "role", "last_sso_auth">>,
     rows |-> [i \in 1..Len(ms) |-> CsvRow(ms[i])]]

Printed(mode, res) ==
    IF mode = "count" THEN [kind |-> "count", n |-> Len(res)]
    ELSE [kind |-> "json", value |-> res]

\* what a Run whose getMembers returned ms emits (os.Create succeeding)
RunOutput(ms, d, f, mode) ==
    LET res == Collapse(BuildReport(ms, f), d)
    IN  IF mode = "csv" THEN CsvFile(CsvSource(ms, res)) ELSE Printed(mode, res)

\* ----------------------------------------------------------------- state
InitRun ==
    /\ pc = "fetch"
    /\ orgIdx = 1
    /\ after = <<>>
    /\ pageAcc = <<>>
    /\ acc = <<>>
    /\ members = <<>>
    /\ err = ""
    /\ report = <<>>
    /\ result = <<>>
    /\ output = NoOutput
    /\ dedupe = <<>>
    /\ filterEmail = <<>>
    /\ requests = <<>>
    /\ pages = <<>>
    /\ sent = 0
    /\ failed = 0
    /\ honest = TRUE

Init ==
    /\ \E n1 \in 0..MaxMembers : \E n2 \in 0..(MaxMembers - n1) :
         \E s1 \in [1..n1 -> EdgePool], s2 \in [1..n2 -> EdgePool] :
            server = [o \in Orgs |-> IF o = OrgSlugs[1] THEN s1 ELSE s2]
    /\ cap = ServerCap
    /\ InitRun

InitPages ==
    /\ \E n \in 0..MaxServed :
         server = [o \in Orgs |-> IF o = OrgSlugs[1]
                                  THEN [i \in 1..n |-> Filler(i)] ELSE <<>>]
    /\ cap = PageSize
    /\ InitRun

\* --------------------------------------------------------- GetOrgMembers
\* one iteration of the loop whose request is answered with a page
Receive(edges, info) ==
    /\ requests' = Append(requests, after)
    /\ pages' = Append(pages, [edges |-> edges, info |-> info])
    /\ sent' = sent + 1
    /\ pageAcc' = pageAcc \o OrgMembersOf(edges)
    /\ IF NextAfter(info) = <<>>
       THEN pc' = "fetched" /\ after' = after
       ELSE pc' = "fetch" /\ after' = NextAfter(info)
    /\ UNCHANGED <<server, cap, orgIdx, acc, members, err, report, result,
                   output, dedupe, filterEmail, failed>>

PageOK ==
    /\ pc = "fetch"
    /\ LET list == server[OrgSlugs[orgIdx]]
       IN  Receive(PageEdges(list, after), HonestInfo(list, after))
    /\ honest' = honest

\* a page whose pageInfo is not the one a well-behaved API sends
PageOdd ==
    /\ pc = "fetch"
    /\ Len(requests) < MaxRequests
    /\ LET list == server[OrgSlugs[orgIdx]]
       IN  \E info \in PageInfos(list, after) \ {HonestInfo(list, after)} :
              Receive(PageEdges(list, after), info)
    /\ honest' = FALSE

PageFailSwallowed ==
    /\ pc = "fetch"
    /\ requests' = Append(requests, after)
    /\ sent' = sent + 1
    /\ failed' = sent + 1
    /\ pc' = "fetched"
    /\ UNCHANGED <<server, cap, orgIdx, after, pageAcc, acc, members, err, report,
                   result, output, dedupe, filterEmail, pages, honest>>

\* c.Do or DecodeInto fails: GetOrgMembers, getMembers and Run return the error
PageFail ==
    /\ pc = "fetch"
    /\ \E kind \in ErrorKinds : err' = kind
    /\ requests' = Append(requests, after)
    /\ sent' = sent + 1
    /\ failed' = sent + 1
    /\ pc' = "error"
    /\ pageAcc' = <<>>
    /\ acc' = <<>>
    /\ members' = <<>>
    /\ UNCHANGED <<server, cap, orgIdx, after, report, result, output, dedupe,
                   filterEmail, pages, honest>>

\* ------------------------------------------------------------ getMembers
\* getEmailDomain fails on a member of the organization just fetched
NormalizeFail ==
    /\ pc = "fetched"
    /\ ~NormalizeOK(pageAcc, OrgSlugs[orgIdx])
    /\ pc' = "error"
    /\ err' = "email"
    /\ pageAcc' = <<>>
    /\ acc' = <<>>
    /\ members' = <<>>
    /\ UNCHANGED <<server, cap, orgIdx, after, report, result, output, dedupe,
                   filterEmail, requests, pages, sent, failed, honest>>

\* the organization's members are appended and the next GetOrgMembers call starts
NormalizeNext ==
    /\ pc = "fetched"
    /\ NormalizeOK(pageAcc, OrgSlugs[orgIdx])
    /\ orgIdx < Len(OrgSlugs)
    /\ acc' = acc \o Normalized(pageAcc, OrgSlugs[orgIdx])
    /\ orgIdx' = orgIdx + 1
    /\ pc' = "fetch"
    /\ after' = <<>>
    /\ pageAcc' = <<>>
    /\ requests' = <<>>
    /\ pages' = <<>>
    /\ UNCHANGED <<server, cap, members, err, report, result, output, dedupe,
                   filterEmail, sent, failed, honest>>

\* the last organization's members are appended and getMembers returns result
NormalizeLast ==
    /\ pc = "fetched"
    /\ NormalizeOK(pageAcc, OrgSlugs[orgIdx])
    /\ orgIdx = Len(OrgSlugs)
    /\ members' = acc \o Normalized(pageAcc, OrgSlugs[orgIdx])
    /\ acc' = <<>>
    /\ pageAcc' = <<>>
    /\ pc' = "run"
    /\ UNCHANGED <<server, cap, orgIdx, after, err, report, result, output,
                   dedupe, filterEmail, requests, pages, sent, failed, honest>>

\* ------------------------------------------------------------------- Run
\* the report and the collapse step under the flags c.Dedupe = d, c.Email = f
Reported(d, f) ==
    /\ dedupe' = d
    /\ filterEmail' = f
    /\ report' = BuildReport(members, f)
    /\ result' = Collapse(BuildReport(members, f), d)
    /\ UNCHANGED <<server, cap, orgIdx, after, pageAcc, acc, members, requests,
                   pages, sent, failed, honest>>

RunPrint ==
    /\ pc = "run"
    /\ \E d \in DedupeSettings, f \in EmailFilters, mode \in {"count", "json"} :
          /\ Reported(d, f)
          /\ output' = RunOutput(members, d, f, mode)
    /\ pc' = "done"
    /\ err' = err

RunCSV ==
    /\ pc = "run"
    /\ \E d \in DedupeSettings, f \in EmailFilters :
          /\ Reported(d, f)
          /\ output' = RunOutput(members, d, f, "csv")
    /\ pc' = "done"
    /\ err' = err

\* os.Create("output.csv") fails
RunCSVCreateFails ==
    /\ pc = "run"
    /\ \E d \in DedupeSettings, f \in EmailFilters : Reported(d, f)
    /\ output' = output
    /\ pc' = "error"
    /\ err' = "create"

Next ==
    \/ PageOK
    \/ PageFail
    \/ NormalizeFail
    \/ NormalizeNext
    \/ NormalizeLast
    \/ RunPrint
    \/ RunCSV
    \/ RunCSVCreateFails

Spec == Init /\ [][Next]_vars

\* Client.GetOrgMembers alone, on one organization, against an API that may
\* also send ill-formed pageInfo
NextPages ==
    \/ PageOK
    \/ PageOdd
    \/ PageFail

SpecPages == InitPages /\ [][NextPages]_vars

\* ================================================================ claims
Ceil(n, d) == (n + d - 1) \div d
HasAt(s) == \E i \in DOMAIN s : s[i] = At
Effective(edge) == IF edge.Auths # <<>> THEN edge.Auths[1].Email ELSE edge.Email
AllEdges == server[OrgSlugs[1]] \o server[OrgSlugs[2]]
Kth(S, k) == CHOOSE p \in S : Cardinality({q \in S : q <= p}) = k
PickedAt(s, S) == [k \in 1..Cardinality(S) |-> s[Kth(S, k)]]
Positions(e) == {p \in DOMAIN members : members[p].Email = e}
Reported0 == pc = "done" \/ err = "create"
DistinctIDs == \A i, j \in DOMAIN members : members[i].ID = members[j].ID => i = j
Appears(m, r) ==
    m = r.Member \/ m \in Range(r.EmailDuplicates) \/ m \in Range(r.NameDuplicates)

RECURSIVE LexLeq(_, _)
LexLeq(a, b) ==
    IF a = <<>> THEN TRUE
    ELSE IF b = <<>> THEN FALSE
    ELSE IF Head(a) # Head(b) THEN Head(a) < Head(b)
    ELSE LexLeq(Tail(a), Tail(b))

\* C1 (as claimed): with no dedup key and no email filter the report holds
\* exactly one entry per distinct effective email among the members.
C1_OneEntryPerDistinctEmail ==
    (pc = "done" /\ dedupe = <<>> /\ filterEmail = <<>>) =>
        /\ Len(report) = Cardinality({members[i].Email : i \in DOMAIN members})
        /\ result = report

\* C2: after the collapse step with dedupe containing `email`, every surviving
\* entry's representative is the first member in fetch order having its email,
\* and no two surviving entries have the same representative email (so of two
\* members sharing an email at most one is a surviving representative).
C2_EmailCollapseKeepsFirstSeen ==
    (Reported0 /\ "email" \in Range(dedupe)) =>
        /\ \A i \in DOMAIN result :
              result[i].Member = members[Kth(Positions(result[i].Member.Email), 1)]
        /\ \A i, j \in DOMAIN result :
              result[i].Member.Email = result[j].Member.Email => i = j

C2_Witness ==
    /\ pc = "done"
    /\ "email" \in Range(dedupe)
    /\ \E i \in DOMAIN result : Cardinality(Positions(result[i].Member.Email)) >= 2

More(page) == page.info.hasNextPage /\ page.info.endCursor # <<>>

RECURSIVE Concat(_)
Concat(ps) == IF ps = <<>> THEN <<>> ELSE ps[1].edges \o Concat(Tail(ps))

\* the cursor chain of one GetOrgMembers call, whatever the API answers
CursorChain ==
    /\ requests # <<>> => requests[1] = <<>>
    /\ \A i \in DOMAIN requests : i > 1 => requests[i] = pages[i - 1].info.endCursor
    /\ \A i \in DOMAIN pages : More(pages[i]) <=> (i < Len(requests) \/ pc = "fetch")
    /\ pc = "fetched" =>
          /\ Len(pages) = Len(requests)
          /\ pageAcc = OrgMembersOf(Concat(pages))

\* C3 (as amended): GetOrgMembers follows the cursor chain (first request with an
\* empty `after`, each later one with the previous page's endCursor, continuing
\* exactly while the last page had hasNextPage and a non-empty endCursor, the
\* result being the concatenation of the pages); against a server holding N
\* members served 100 per page it sends ceil(N/100) requests, and one request
\* when N = 0, and returns the N members in order.
C3_CursorChainAndRequestCount ==
    /\ CursorChain
    /\ (pc = "fetched" /\ honest) =>
          /\ Len(requests) = Max(1, Ceil(Len(server[OrgSlugs[1]]), PageSize))
          /\ pageAcc = OrgMembersOf(server[OrgSlugs[1]])

\* C3 (as claimed): the same, with exactly ceil(N/100) requests for every N.
C3_ExactlyCeilRequests ==
    /\ CursorChain
    /\ (pc = "fetched" /\ honest) =>
          /\ Len(requests) = Ceil(Len(server[OrgSlugs[1]]), PageSize)
          /\ pageAcc = OrgMembersOf(server[OrgSlugs[1]])

C3_Witness ==
    /\ pc = "fetched"
    /\ honest
    /\ Len(server[OrgSlugs[1]]) = 2 * PageSize + PageSize \div 2
    /\ Len(requests) = 3
    /\ requests[3] = <<2 * PageSize>>
    /\ Len(pageAcc) = Len(server[OrgSlugs[1]])

\* C4: once a page request has failed, GetOrgMembers, getMembers and Run have
\* returned that error: no member list survives (neither the pages fetched
\* before it nor the organizations fetched earlier), no request follows the
\* failed one (it is not re-issued), and nothing is emitted.
C4_RequestFailureAbortsRun ==
    failed # 0 =>
        /\ pc = "error"
        /\ err \in ErrorKinds
        /\ sent = failed
        /\ Len(requests) = Len(pages) + 1
        /\ pageAcc = <<>>
        /\ acc = <<>>
        /\ members = <<>>
        /\ output = NoOutput

C4_Witness ==
    /\ failed # 0
    /\ orgIdx = 2
    /\ server[OrgSlugs[1]] # <<>>
    /\ Len(requests) = 2
    /\ pages[1].edges # <<>>
    /\ pc = "error"

DomainAfterLastAt(email, domain) ==
    \E k \in DOMAIN email :
        /\ email[k] = At
        /\ \A j \in DOMAIN email : j > k => email[j] # At
        /\ domain = SubSeq(email, k + 1, Len(email))

NormalizedFrom(ms) ==
    \A i \in DOMAIN ms :
        /\ i <= Len(AllEdges)
        /\ ms[i].Email = Effective(AllEdges[i])
        /\ DomainAfterLastAt(ms[i].Email, ms[i].Domain)

\* C5: whenever getMembers succeeds it returns one Member per fetched member,
\* whose Domain is the substring of its effective email (the authorization
\* email when there is one, else the account email) after the last `@`; an
\* effective email without `@` in any organization makes getMembers fail: no
\* organization holding one is ever passed, the error is the invalid-email
\* error, and no member at all is returned and nothing emitted.
C5_DomainOrFailFast ==
    /\ NormalizedFrom(acc)
    /\ NormalizedFrom(members)
    /\ (pc \in {"run", "done"} \/ err = "create") => Len(members) = Len(AllEdges)
    /\ \A k \in 1..(orgIdx - 1) :
          \A i \in DOMAIN server[OrgSlugs[k]] : HasAt(Effective(server[OrgSlugs[k]][i]))
    /\ (\E i \in DOMAIN AllEdges : ~HasAt(Effective(AllEdges[i]))) =>
          /\ pc \in {"fetch", "fetched", "error"}
          /\ members = <<>>
          /\ output = NoOutput
    /\ (pc = "fetched" /\ ENABLED NormalizeFail) <=>
          (pc = "fetched" /\ \E i \in DOMAIN pageAcc :
              ~HasAt(IF pageAcc[i].Authorization # <<>>
                     THEN pageAcc[i].Authorization[1].Email ELSE pageAcc[i].Email))
    /\ err = "email" =>
          /\ pc = "error"
          /\ \E i \in DOMAIN server[OrgSlugs[orgIdx]] :
                ~HasAt(Effective(server[OrgSlugs[orgIdx]][i]))
          /\ acc = <<>>
          /\ members = <<>>
          /\ output = NoOutput

C5_Witness ==
    /\ err = "email"
    /\ orgIdx = 2
    /\ \E i \in DOMAIN server[OrgSlugs[1]] :
          Effective(server[OrgSlugs[1]][i]) = EmailABX
    /\ \E i \in DOMAIN server[OrgSlugs[2]] :
          /\ HasAt(server[OrgSlugs[2]][i].Email)
          /\ ~HasAt(Effective(server[OrgSlugs[2]][i]))
    /\ members = <<>>

EntryOfFirstSeen(r) ==
    LET at == Positions(r.Member.Email)
    IN  /\ at # {}
        /\ r.Member = members[Kth(at, 1)]
        /\ r.EmailDuplicates = PickedAt(members, at \ {Kth(at, 1)})
        /\ \A k \in DOMAIN r.EmailDuplicates :
              r.EmailDuplicates[k].Email = r.Member.Email

\* C6: for every report entry (before and after the collapse step) the
\* representative is the first member in fetch order having its email, and
\* EmailDuplicates is exactly the members at the later positions having that
\* email, in fetch order: never the representative's own position, never a
\* member with a different email.
C6_EmailDuplicatesExact ==
    Reported0 =>
        /\ \A i \in DOMAIN report : EntryOfFirstSeen(report[i])
        /\ \A i \in DOMAIN result : EntryOfFirstSeen(result[i])

C6_Witness ==
    /\ pc = "done"
    /\ \E i \in DOMAIN result :
          /\ result[i].EmailDuplicates # <<>>
          /\ result[i].EmailDuplicates[1] # result[i].Member
          /\ Kth(Positions(result[i].Member.Email), 1) > 1

Sorted(rs) ==
    \A i \in DOMAIN rs : i < Len(rs) => LexLeq(rs[i].Member.Email, rs[i + 1].Member.Email)

\* C7: report entries are in ascending order of representative email, before
\* and after the collapse step: each entry's email is lexicographically less
\* than or equal to the next entry's.
C7_ReportSortedByEmail ==
    Reported0 => Sorted(report) /\ Sorted(result)

C7_Witness ==
    /\ pc = "done"
    /\ dedupe # <<>>
    /\ Len(result) >= 2
    /\ Len(result) < Len(report)
    /\ \E i \in DOMAIN members :
          i < Len(members) /\ ~LexLeq(members[i].Email, members[i + 1].Email)

\* C8: in CSV mode the data rows are the members getMembers returned, one row
\* each, in fetch order, and every dedupe setting and email filter yields the
\* same file on the same members.
C8_CsvRowsAreAllMembers ==
    output.kind = "csv" =>
        /\ Len(output.rows) = Len(members)
        /\ \A i \in DOMAIN members :
              SubSeq(output.rows[i], 1, 4) =
                  <<members[i].Email, members[i].Name, members[i].Org, members[i].Role>>
        /\ \A d \in DedupeSettings, f \in EmailFilters :
              RunOutput(members, d, f, "csv") = output

C8_Witness ==
    /\ output.kind = "csv"
    /\ dedupe # <<>>
    /\ filterEmail # <<>>
    /\ Len(result) < Len(report)
    /\ Len(result) + 2 <= Len(members)

MarkedBy(r, d) ==
    {r.Member.ID}
    \cup (IF "email" \in Range(d) THEN {r.EmailDuplicates[k].ID : k \in DOMAIN r.EmailDuplicates} ELSE {})
    \cup (IF "name" \in Range(d) THEN {r.NameDuplicates[k].ID : k \in DOMAIN r.NameDuplicates} ELSE {})

\* S is the set of kept positions of a greedy first-seen walk of the report
GreedyKept(S) ==
    \A i \in DOMAIN report :
        i \in S <=> ~\E j \in S : j < i /\ report[i].Member.ID \in MarkedBy(report[j], dedupe)

\* C9: the collapse step keeps exactly the entries whose representative id was
\* not marked by an earlier KEPT entry (its own id, the ids of its
\* EmailDuplicates when dedupe has `email`, of its NameDuplicates when dedupe
\* has `name`); skipped entries mark nothing.
C9_GreedyFirstSeenCollapse ==
    (Reported0 /\ dedupe # <<>>) =>
        \E S \in SUBSET DOMAIN report :
            GreedyKept(S) /\ result = PickedAt(report, S)

C9_Witness ==
    /\ pc = "done"
    /\ dedupe # <<>>
    /\ \E S \in SUBSET DOMAIN report :
          /\ GreedyKept(S)
          /\ result = PickedAt(report, S)
          /\ \E j \in DOMAIN report \ S, i \in S :
                j < i /\ report[i].Member.ID \in MarkedBy(report[j], dedupe) \ {report[j].Member.ID}

\* C10 (as claimed): with pairwise distinct ids, a dedupe setting and no email
\* filter, every member is the representative of a surviving entry or is in
\* the EmailDuplicates or NameDuplicates of one.
C10_NoAccountLost ==
    (pc = "done" /\ dedupe # <<>> /\ filterEmail = <<>> /\ DistinctIDs) =>
        \A i \in DOMAIN members : \E k \in DOMAIN result : Appears(members[i], result[k])

====
